---- MODULE Spec2Model ----
(***************************************************************************)
(* Reverse resource sync of django-ansible-base.                           *)
(*                                                                         *)
(* Two code paths are modelled:                                            *)
(*  - ansible_base/resource_registry/signals/handlers.py: the pre_save /   *)
(*    pre_delete handlers open a transaction for the instance, the local   *)
(*    INSERT/UPDATE/DELETE runs, and the post_save / post_delete handlers  *)
(*    call sync_to_resource_server(action, instance), which talks to the   *)
(*    resource server and exits the transaction (Spec);                    *)
(*  - ansible_base/resource_registry/utils/sync_to_resource_server.py:     *)
(*    the utility sync_to_resource_server(instance, action) (UtilSpec).    *)
(*                                                                         *)
(* The database connection follows django.db.transaction.Atomic: one stack *)
(* of open atomic blocks per connection, the outermost being the database  *)
(* transaction and the inner ones savepoints.  A local change is a number  *)
(* (its index in hist); the working state of the connection is the set of  *)
(* changes applied, the committed state the set of changes durable.        *)
(***************************************************************************)
EXTENDS Integers, Sequences, FiniteSets

VARIABLES
    settings,     \* django.conf.settings: the three settings the sync reads
    hasTxn,       \* hasTxn[i]: hasattr(instance, '_transaction')
    stack,        \* open atomic blocks of the connection; each holds the state to roll back to
    callerDepth,  \* atomic blocks the caller of save()/delete() has entered itself
    applied,      \* changes in the working state of the connection
    durable,      \* changes committed
    hist,         \* hist[c]: the instance and action of local change c
    accepted,     \* changes the resource server has accepted
    op,           \* the save()/delete() in progress, or the one that has just returned
    trace,        \* queries and client calls of the operation, in order
    result,       \* how the operation returned to its caller
    ucall,        \* the last call of the utility sync: its arguments
    utrace,       \* client calls of the last utility sync, in order
    uresult,      \* how the last utility sync returned
    registry,     \* the resource registry: whether there is one, and the models it registers
    stored,       \* objects of the registry's models whose row exists
    resCount,     \* resCount[o]: Resource rows that point at object o
    revent,       \* the last save()/delete() of such an object
    rcalls,       \* Resource operations called during that event, in order
    rows,         \* rows of the auditable models: one instance for each stored object
    links,        \* rows of the through table of Animal.people: <<animal pk, user pk>>
    entries,      \* rows of Entry, in the order they were created
    sevent,       \* the last save(), delete() or many-to-many change of an auditable object
    blocks,       \* the atomic objects whose blocks are open on the connection, innermost last
    held,         \* held[i]: the atomic object instance._transaction refers to (0: none yet)
    pending,      \* instances whose pre-signal was handled and whose post-signal is due
    cevent        \* the last signal handled while signals of several instances interleave

vars == <<settings, hasTxn, stack, callerDepth, applied, durable,
          hist, accepted, op, trace, result, ucall, utrace, uresult,
          registry, stored, resCount, revent, rcalls,
          rows, links, entries, sevent,
          blocks, held, pending, cevent>>

handlerVars == <<hasTxn, stack, callerDepth, applied, durable, hist, accepted, op, trace, result>>
utilVars == <<ucall, utrace, uresult>>
registryVars == <<registry, stored, resCount, revent, rcalls>>
streamVars == <<rows, links, entries, sevent>>
collectVars == <<blocks, held, pending, cevent>>
otherVars == <<registryVars, streamVars, collectVars>>

---------------------------------------------------------------------------
(* Bounds *)

NumInstances == 2   \* model instances (Python objects, one row each)
MaxOps == 2         \* local writes that succeed in one behaviour
MaxDepth == 2       \* atomic blocks open at once on the connection
MaxCaller == 1      \* atomic blocks the caller nests around an operation

Instances == 1..NumInstances

---------------------------------------------------------------------------
(* Values *)

\* Python values of the settings; "unset" is an attribute settings does not have.
DisableValues == {"unset", "False", "True"}
ResourceServerValues == {"unset", "{}", "{url}"}
ServicePathValues == {"unset", "''", "/foo"}

\* Python truthiness of the values above.
Truthy(v) == v \in {"True", "{url}", "/foo"}

\* getattr(settings, name, default)
GetAttr(s, name, default) == IF s[name] = "unset" THEN default ELSE s[name]

\* get_current_user(): None, AnonymousUser (no resource attribute), a user with a resource
Users == {"None", "AnonymousUser", "user"}

\* instance.resource: None, raises Resource.DoesNotExist, a resource with an empty
\* ansible_id, a resource with an ansible_id
ResourceStates == {"None", "DoesNotExist", "no_ansible_id", "ok"}

Actions == {"create", "update", "delete"}

\* The utility sync takes the action as a plain string: any other value is possible.
UtilActions == Actions \cup {"other"}

\* Where the environment makes the sync raise: nowhere, in get_resource_server_client,
\* in the serializer, in the client method (the request).
FailPoints == {"none", "client", "serializer", "request"}

\* What is raised there: the utility sync's handler is "except Exception", so the class
\* of the exception is an input of its own.
ExceptionTypes == {"Exception", "ConnectionError"}

\* op: phase is "idle", "pre" (pre-signal handled), "written" (local write done) or "done"
\* (returned to the caller); user and resource are what the sync found as the current
\* user and as instance.resource; exc tells whether an exception left the sync's try.
NoOp == [phase |-> "idle", inst |-> 0, kind |-> "none", action |-> "none", chg |-> 0,
         depth0 |-> 0, user |-> "-", resource |-> "-", exc |-> FALSE]
\* ucall: the arguments and the surroundings of the last call of the utility sync;
\* inst = 0 before the first call.
NoCall == [inst |-> 0, action |-> "-", from_rs |-> FALSE, user |-> "-",
           resource |-> "-", fail |-> "-", exc |-> "-"]

---------------------------------------------------------------------------
(* handlers.py: _should_reverse_sync *)

RECURSIVE CheckSettings(_, _, _)
CheckSettings(s, names, enabled) ==
    IF names = <<>> THEN enabled
    ELSE IF ~Truthy(GetAttr(s, Head(names), "False")) THEN FALSE
    ELSE CheckSettings(s, Tail(names), enabled)

\* Mutant: the loop stops after RESOURCE_SERVER, RESOURCE_SERVICE_PATH is never read.
should_reverse_sync_first_setting_only(s) ==
    CheckSettings(s, <<"RESOURCE_SERVER">>,
                  ~Truthy(GetAttr(s, "DISABLE_RESOURCE_SERVER_SYNC", "False")))

\* Mutant: DISABLE_RESOURCE_SERVER_SYNC is not read.
should_reverse_sync_ignores_disable(s) ==
    CheckSettings(s, <<"RESOURCE_SERVER", "RESOURCE_SERVICE_PATH">>, TRUE)

_should_reverse_sync(s) ==
    CheckSettings(s, <<"RESOURCE_SERVER", "RESOURCE_SERVICE_PATH">>,
                  ~Truthy(GetAttr(s, "DISABLE_RESOURCE_SERVER_SYNC", "False")))

---------------------------------------------------------------------------
(* django.db.transaction.atomic() as the handlers use it *)

\* Atomic.__enter__: the outermost block begins the transaction, an inner one sets a savepoint.
EnterQuery(st) == IF st = <<>> THEN "BEGIN" ELSE "SAVEPOINT"

\* Atomic.__exit__(None, None, None)
CommitQueries(st) == IF Len(st) = 1 THEN <<"COMMIT">> ELSE <<"RELEASE SAVEPOINT">>

\* Atomic.__exit__(exc_type, exc, tb)
RollbackQueries(st) ==
    IF Len(st) = 1 THEN <<"ROLLBACK">> ELSE <<"ROLLBACK TO SAVEPOINT", "RELEASE SAVEPOINT">>

Pop(st) == SubSeq(st, 1, Len(st) - 1)
Top(st) == st[Len(st)]

\* The row of instance i exists in the state made of the changes cs.
LastChange(i, cs) ==
    LET mine == {c \in cs : hist[c].inst = i} IN
    IF mine = {} THEN 0 ELSE CHOOSE c \in mine : \A d \in mine : d <= c

RowExists(i, cs) ==
    LET c == LastChange(i, cs) IN c # 0 /\ hist[c].action # "delete"

---------------------------------------------------------------------------
\* cevent: kind is "pre" or "post"; object is the atomic object entered or exited (they
\* are numbered as they are created); closed is the atomic object whose block the exit
\* closed; opened counts the atomic objects created so far.
NoSignal == [kind |-> "none", inst |-> 0, object |-> 0, closed |-> 0, opened |-> 0, exc |-> FALSE]

\* The reverse sync before the first signal, under any settings.
SyncInit ==
    /\ settings \in [DISABLE_RESOURCE_SERVER_SYNC : DisableValues,
                     RESOURCE_SERVER : ResourceServerValues,
                     RESOURCE_SERVICE_PATH : ServicePathValues]
    /\ hasTxn = [i \in Instances |-> FALSE]
    /\ stack = <<>>
    /\ callerDepth = 0
    /\ applied = {}
    /\ durable = {}
    /\ hist = <<>>
    /\ accepted = {}
    /\ op = NoOp
    /\ trace = <<>>
    /\ result = "none"
    /\ ucall = NoCall
    /\ utrace = <<>>
    /\ uresult = "none"
    /\ blocks = <<>>
    /\ held = [i \in Instances |-> 0]
    /\ pending = <<>>
    /\ cevent = NoSignal

\* The settings of a service that does not configure the reverse sync.
SyncIdle ==
    /\ SyncInit
    /\ settings = [DISABLE_RESOURCE_SERVER_SYNC |-> "unset", RESOURCE_SERVER |-> "unset",
                   RESOURCE_SERVICE_PATH |-> "unset"]

\* Models of the application: Organization is shared through the registry in test_app,
\* EncryptionModel is not.  An object is a model and a primary key.
RegModels == {"Organization", "EncryptionModel"}
RegObjects == RegModels \X Instances

\* get_registry() of test_app
TestAppRegistry == [exists |-> TRUE, resources |-> {"Organization"}]

\* get_registry(): none configured, or one registering some of the models
Registries == [exists : BOOLEAN, resources : SUBSET RegModels]

\* revent: kind is "save" or "delete"; created is post_save's created; had tells whether
\* the object had a Resource before the event; before is resCount before the event.
NoEvent == [kind |-> "none", obj |-> <<"-", 0>>, created |-> FALSE, had |-> FALSE,
            before |-> [o \in RegObjects |-> 0]]

\* No object of the registry's models is stored yet.
RegistryIdle(reg) ==
    /\ registry = reg
    /\ stored = {}
    /\ resCount = [o \in RegObjects |-> 0]
    /\ revent = NoEvent
    /\ rcalls = <<>>

\* Primary keys of the auditable models, and the number of Entry rows followed.
MaxPk == 2
MaxEntries == 2

Pks == 1..MaxPk

\* Auditable models of test_app: Animal has the many-to-many field people to User.
StreamModels == {"Animal", "User"}
FieldsOf(model) == IF model = "Animal" THEN {"name", "kind"} ELSE {"name"}
Values == {"a", "b"}

\* An instance is its model, its pk (0 for pk None) and the values of its fields;
\* None stands for Python's None where an instance is expected.
None == [model |-> "None", pk |-> 0, fields |-> [f \in {"name"} |-> "a"]]
IsNone(x) == x.model = "None"
Instance(model, pk, fields) == [model |-> model, pk |-> pk, fields |-> fields]
FieldValues(model) == [FieldsOf(model) -> Values]

\* sevent: kind is "save", "delete" or "m2m"; given is the pk the instance came with;
\* old is the stored row before the event; before is the number of Entry rows then;
\* steps lists handlers, writes and Entry inserts in the order they ran.  For a
\* many-to-many change: action is the action that changes the activity stream, model and
\* pk_set are as the signal carried them, linked is the through table before the change.
NoStreamEvent ==
    [kind |-> "none", instance |-> None, given |-> 0, created |-> FALSE, old |-> None,
     before |-> 0, steps |-> <<>>, action |-> "-", reverse |-> FALSE, model |-> "-",
     pk_set |-> {}, field_name |-> "-", linked |-> {}, raised |-> "none"]

\* No auditable object is stored and no Entry recorded.
StreamIdle ==
    /\ rows = {}
    /\ links = {}
    /\ entries = <<>>
    /\ sevent = NoStreamEvent

Init == SyncInit /\ RegistryIdle(TestAppRegistry) /\ StreamIdle

\* No save()/delete() is between its pre- and post-signal.
Quiet == op.phase \in {"idle", "done"}

\* The caller carries on after the operation: what was observed of it is dropped.
Returned ==
    /\ op' = NoOp
    /\ trace' = <<>>
    /\ result' = "none"

---------------------------------------------------------------------------
(* The environment of the handlers *)

\* The caller enters an atomic block of its own around what it saves.
CallerEnter ==
    /\ Quiet
    /\ callerDepth < MaxCaller
    /\ Len(stack) < MaxDepth
    /\ stack' = Append(stack, applied)
    /\ callerDepth' = callerDepth + 1
    /\ Returned
    /\ UNCHANGED <<settings, hasTxn, applied, durable,
                   hist, accepted, utilVars, otherVars>>

\* The caller leaves its atomic block, normally (ok) or with an exception.
CallerExit(ok) ==
    /\ Quiet
    /\ callerDepth > 0
    /\ stack # <<>>
    /\ stack' = Pop(stack)
    /\ callerDepth' = callerDepth - 1
    /\ applied' = IF ok THEN applied ELSE Top(stack)
    /\ durable' = IF ok /\ Len(stack) = 1 THEN applied ELSE durable
    /\ Returned
    /\ UNCHANGED <<settings, hasTxn, hist, accepted, utilVars, otherVars>>

---------------------------------------------------------------------------
(* handlers.py: the pre-signal handlers *)

\* _ensure_transaction(instance): with reverse sync off it returns at once; otherwise
\* instance._transaction = transaction.atomic(); instance._transaction.__enter__()
_ensure_transaction(i) ==
    IF ~_should_reverse_sync(settings)
    THEN /\ trace' = <<>>
         /\ UNCHANGED <<hasTxn, stack>>
    ELSE /\ hasTxn' = [hasTxn EXCEPT ![i] = TRUE]
         /\ stack' = Append(stack, applied)
         /\ trace' = <<EnterQuery(stack)>>

\* pre_save of instance.save()
sync_to_resource_server_pre_save(i) ==
    /\ Quiet
    /\ Len(hist) < MaxOps
    /\ Len(stack) < MaxDepth
    /\ _ensure_transaction(i)
    /\ op' = [phase |-> "pre", inst |-> i, kind |-> "save", action |-> "none",
              chg |-> 0, depth0 |-> Len(stack), user |-> "-", resource |-> "-",
              exc |-> FALSE]
    /\ result' = "none"
    /\ UNCHANGED <<settings, callerDepth, applied, durable, hist,
                   accepted, utilVars, otherVars>>

\* pre_delete of instance.delete(), for an instance that is stored
sync_to_resource_server_pre_delete(i) ==
    /\ Quiet
    /\ Len(hist) < MaxOps
    /\ Len(stack) < MaxDepth
    /\ RowExists(i, applied)
    /\ _ensure_transaction(i)
    /\ op' = [phase |-> "pre", inst |-> i, kind |-> "delete", action |-> "none",
              chg |-> 0, depth0 |-> Len(stack), user |-> "-", resource |-> "-",
              exc |-> FALSE]
    /\ result' = "none"
    /\ UNCHANGED <<settings, callerDepth, applied, durable, hist,
                   accepted, utilVars, otherVars>>

---------------------------------------------------------------------------
(* The local write between the pre- and the post-signal *)

\* created (post_save) / the signal sent: what the write of the operation is
WriteAction(o) ==
    IF o.kind = "delete" THEN "delete"
    ELSE IF RowExists(o.inst, applied) THEN "update" ELSE "create"

WriteQuery(a) == CASE a = "create" -> "INSERT" [] a = "update" -> "UPDATE" [] OTHER -> "DELETE"

\* The INSERT/UPDATE/DELETE of the operation.  It succeeds (ok), or it raises (an
\* IntegrityError, say) and the exception leaves save()/delete(): no post-signal is sent.
LocalWrite(ok) ==
    /\ op.phase = "pre"
    /\ IF ok
       THEN LET c == Len(hist) + 1
                a == WriteAction(op)
            IN /\ hist' = Append(hist, [inst |-> op.inst, action |-> a])
               /\ applied' = applied \cup {c}
               /\ durable' = IF stack = <<>> THEN applied \cup {c} ELSE durable
               /\ trace' = Append(trace, WriteQuery(a))
               /\ op' = [op EXCEPT !.phase = "written", !.action = a, !.chg = c]
               /\ UNCHANGED result
       ELSE /\ op' = [op EXCEPT !.phase = "done", !.action = WriteAction(op)]
            /\ result' = "IntegrityError"
            /\ UNCHANGED <<hist, applied, durable, trace>>
    /\ UNCHANGED <<settings, hasTxn, stack, callerDepth, accepted, utilVars, otherVars>>

---------------------------------------------------------------------------
(* handlers.py: sync_to_resource_server(action, instance) *)

\* Mutant: only a resource that is None is skipped.
SkipForResource_none_only(r) == r = "None"

\* "We can't sync if we don't have a resource and an ansible_id": instance.resource is
\* None, raises Resource.DoesNotExist, or has a falsy ansible_id.
SkipForResource(r) == r # "ok"

\* Mutant: only a missing user is skipped.
SkipForUser_none_only(u) == u = "None"

\* No current user, or user.resource.ansible_id raises AttributeError (AnonymousUser).
SkipForUser(u) == u \in {"None", "AnonymousUser"}

\* Mutant: an update is sent as a create.
ClientMethod_update_as_create(action) ==
    CASE action = "create" -> "create_resource"
      [] action = "update" -> "create_resource"
      [] action = "delete" -> "delete_resource"

\* The client method the action calls.
ClientMethod(action) ==
    CASE action = "create" -> "create_resource"
      [] action = "update" -> "update_resource"
      [] action = "delete" -> "delete_resource"

\* The body of the outer try: the client calls made, in order; whether an exception left
\* it (exc); whether the resource server accepted the request (sent).
SyncTry(action, r, u, fail) ==
    IF SkipForResource(r) THEN [events |-> <<>>, exc |-> FALSE, sent |-> FALSE]
    ELSE IF SkipForUser(u) THEN [events |-> <<>>, exc |-> FALSE, sent |-> FALSE]
    ELSE IF fail = "client"
    THEN [events |-> <<"get_resource_server_client">>, exc |-> TRUE, sent |-> FALSE]
    ELSE IF action \in {"create", "update"} /\ fail = "serializer"
    THEN [events |-> <<"get_resource_server_client">>, exc |-> TRUE, sent |-> FALSE]
    ELSE IF action \in {"create", "update", "delete"}
    THEN [events |-> <<"get_resource_server_client", ClientMethod(action)>>,
          exc |-> (fail = "request"), sent |-> (fail # "request")]
    ELSE [events |-> <<"get_resource_server_client">>, exc |-> FALSE, sent |-> FALSE]

\* Mutant: the exception is not passed on, the finally branch always exits normally.
TransactionExit_always_commits(i, exc) ==
    IF ~hasTxn[i] THEN "none" ELSE "commit"

\* except/finally: how instance._transaction is exited.  With an exception and a
\* _transaction, __exit__(*sys.exc_info()); without an exception and with a
\* _transaction, __exit__(None, None, None); without a _transaction, not at all.
TransactionExit(i, exc) ==
    IF ~hasTxn[i] THEN "none"
    ELSE IF exc THEN "rollback" ELSE "commit"

\* except: Atomic.__exit__ returns a falsy value, so with a _transaction the
\* ValidationError is raised; without one the exception is logged and swallowed.
Raises(i, exc) ==
    IF exc /\ hasTxn[i] THEN "ValidationError" ELSE "ok"

sync_to_resource_server(action, i, r, u, fail) ==
    IF ~_should_reverse_sync(settings)
    THEN /\ result' = "ok"
         /\ op' = [op EXCEPT !.phase = "done", !.user = u, !.resource = r]
         /\ UNCHANGED <<stack, applied, durable, accepted, trace>>
    ELSE LET t == SyncTry(action, r, u, fail)
             exit == TransactionExit(i, t.exc)
         IN /\ accepted' = IF t.sent THEN accepted \cup {op.chg} ELSE accepted
            /\ CASE exit = "rollback" ->
                      /\ stack' = Pop(stack)
                      /\ applied' = Top(stack)
                      /\ durable' = durable
                      /\ trace' = trace \o t.events \o RollbackQueries(stack)
                 [] exit = "commit" ->
                      /\ stack' = Pop(stack)
                      /\ applied' = applied
                      /\ durable' = IF Len(stack) = 1 THEN applied ELSE durable
                      /\ trace' = trace \o t.events \o CommitQueries(stack)
                 [] OTHER ->
                      /\ trace' = trace \o t.events
                      /\ UNCHANGED <<stack, applied, durable>>
            /\ result' = Raises(i, t.exc)
            /\ op' = [op EXCEPT !.phase = "done", !.user = u, !.resource = r, !.exc = t.exc]

\* post_save: action = 'create' if created else 'update'
sync_to_resource_server_post_save(r, u, fail) ==
    /\ op.phase = "written"
    /\ op.kind = "save"
    /\ LET created == (op.action = "create")
       IN sync_to_resource_server(IF created THEN "create" ELSE "update", op.inst, r, u, fail)
    /\ UNCHANGED <<settings, hasTxn, callerDepth, hist, utilVars, otherVars>>

\* post_delete
sync_to_resource_server_post_delete(r, u, fail) ==
    /\ op.phase = "written"
    /\ op.kind = "delete"
    /\ sync_to_resource_server("delete", op.inst, r, u, fail)
    /\ UNCHANGED <<settings, hasTxn, callerDepth, hist, utilVars, otherVars>>

---------------------------------------------------------------------------
Next ==
    \/ CallerEnter
    \/ \E ok \in BOOLEAN : CallerExit(ok)
    \/ \E i \in Instances : sync_to_resource_server_pre_save(i)
    \/ \E i \in Instances : sync_to_resource_server_pre_delete(i)
    \/ \E ok \in BOOLEAN : LocalWrite(ok)
    \/ \E r \in ResourceStates, u \in Users, fail \in FailPoints :
          sync_to_resource_server_post_save(r, u, fail)
    \/ \E r \in ResourceStates, u \in Users, fail \in FailPoints :
          sync_to_resource_server_post_delete(r, u, fail)

Spec == Init /\ [][Next]_vars

---------------------------------------------------------------------------
(* handlers.py: signals of several instances interleaved (CollectSpec) *)

\* A sequence without its k-th element.
Without(seq, k) == SubSeq(seq, 1, k - 1) \o SubSeq(seq, k + 1, Len(seq))

\* A pre-signal (pre_save or pre_delete) reaches the handler for instance i while
\* post-signals of other operations, or of an earlier one on i, are still due.
PreSignal(i) ==
    /\ Len(stack) < MaxDepth
    /\ cevent.opened < MaxOps + MaxDepth
    /\ _ensure_transaction(i)
    /\ LET n == cevent.opened + 1
       IN IF _should_reverse_sync(settings)
          THEN /\ blocks' = Append(blocks, n)
               /\ held' = [held EXCEPT ![i] = n]
               /\ cevent' = [kind |-> "pre", inst |-> i, object |-> n, closed |-> 0,
                             opened |-> n, exc |-> FALSE]
          ELSE /\ cevent' = [cevent EXCEPT !.kind = "pre", !.inst = i, !.object = 0,
                                           !.closed = 0, !.exc = FALSE]
               /\ UNCHANGED <<blocks, held>>
    /\ pending' = Append(pending, i)
    /\ UNCHANGED <<settings, callerDepth, applied, durable, hist, accepted, op, result,
                   utilVars, registryVars, streamVars>>

\* The post-signal that is due as the k-th reaches the handler; exc tells whether an
\* exception leaves the try of sync_to_resource_server.  A ValidationError ends the
\* save()/delete() that sent the signal: the post-signals still due are not sent.
PostSignal(k, exc) ==
    LET i == pending[k]
        exit == TransactionExit(i, exc)
    IN /\ k \in 1..Len(pending)
       /\ IF exit = "none"
          THEN /\ trace' = <<>>
               /\ cevent' = [cevent EXCEPT !.kind = "post", !.inst = i, !.object = 0,
                                           !.closed = 0, !.exc = exc]
               /\ UNCHANGED <<stack, blocks, applied>>
          ELSE /\ stack' = Pop(stack)
               /\ blocks' = Pop(blocks)
               /\ applied' = IF exit = "rollback" THEN Top(stack) ELSE applied
               /\ trace' = IF exit = "rollback" THEN RollbackQueries(stack)
                           ELSE CommitQueries(stack)
               /\ cevent' = [cevent EXCEPT !.kind = "post", !.inst = i, !.object = held[i],
                                           !.closed = Top(blocks), !.exc = exc]
       /\ pending' = IF Raises(i, exc) = "ValidationError" THEN <<>> ELSE Without(pending, k)
       /\ UNCHANGED <<settings, hasTxn, held, callerDepth, durable, hist, accepted, op,
                      result, utilVars, registryVars, streamVars>>

CollectNext ==
    \/ \E i \in Instances : PreSignal(i)
    \/ \E k \in 1..MaxDepth, exc \in BOOLEAN : PostSignal(k, exc)

\* A service with the reverse sync configured.
CollectInit ==
    /\ Init
    /\ settings = [DISABLE_RESOURCE_SERVER_SYNC |-> "unset", RESOURCE_SERVER |-> "{url}",
                   RESOURCE_SERVICE_PATH |-> "/foo"]

CollectSpec == CollectInit /\ [][CollectNext]_vars

---------------------------------------------------------------------------
(* utils/sync_to_resource_server.py: sync_to_resource_server(instance, action) *)

\* Mutant: any user object is taken to have an ansible_id.
UserAnsibleId_any_user(u) == IF u = "None" THEN "None" ELSE "user.resource.ansible_id"

\* user_ansible_id: None without a user, None when user.resource.ansible_id raises
\* AttributeError, the user's ansible_id otherwise.
UserAnsibleId(u) == IF u = "user" THEN "user.resource.ansible_id" ELSE "None"

\* Mutant: the last branch is an else, so any other action deletes.
UtilRequest_else_deletes(action) ==
    CASE action = "create" -> <<[call |-> "create_resource", arg |-> "body"]>>
      [] action = "update" -> <<[call |-> "update_resource", arg |-> "ansible_id, body"]>>
      [] OTHER -> <<[call |-> "delete_resource", arg |-> "ansible_id"]>>

\* The client method called for the action, with its arguments; none for another action.
UtilRequest(action) ==
    CASE action = "create" -> <<[call |-> "create_resource", arg |-> "body"]>>
      [] action = "update" -> <<[call |-> "update_resource", arg |-> "ansible_id, body"]>>
      [] action = "delete" -> <<[call |-> "delete_resource", arg |-> "ansible_id"]>>
      [] OTHER -> <<>>

\* The calls the function makes, in order, and how it returns.  from_rs is the
\* instance's _is_from_resource_server attribute; exc is the class of what is raised at
\* the point fail.  get_resource_server_client and the serializer run before the try:
\* what they raise leaves the function as it is; what the client method raises is
\* caught, whatever its class, and ValidationError is raised from it.
UtilSync(action, from_rs, r, u, fail, exc) ==
    LET client == <<[call |-> "get_resource_server_client", arg |-> UserAnsibleId(u)]>>
    IN IF SkipForResource(r) THEN [calls |-> <<>>, result |-> "ok"]
       ELSE IF fail = "client" THEN [calls |-> client, result |-> exc]
       ELSE IF fail = "serializer" THEN [calls |-> client, result |-> exc]
       ELSE [calls |-> client \o UtilRequest(action),
             result |-> IF fail = "request" /\ UtilRequest(action) # <<>>
                        THEN "ValidationError" ELSE "ok"]

utils_sync_to_resource_server(i, action, from_rs, r, u, fail, exc) ==
    /\ ucall' = [inst |-> i, action |-> action, from_rs |-> from_rs, user |-> u,
                 resource |-> r, fail |-> fail, exc |-> exc]
    /\ utrace' = UtilSync(action, from_rs, r, u, fail, exc).calls
    /\ uresult' = UtilSync(action, from_rs, r, u, fail, exc).result
    /\ UNCHANGED <<settings, handlerVars, otherVars>>

UtilNext ==
    \E i \in Instances, action \in UtilActions, from_rs \in BOOLEAN,
       r \in ResourceStates, u \in Users, fail \in FailPoints,
       exc \in ExceptionTypes \cup {"-"} :
          /\ (exc = "-") <=> (fail = "none")
          /\ utils_sync_to_resource_server(i, action, from_rs, r, u, fail, exc)

\* The utility sync runs where reverse sync is enabled.
UtilInit == Init /\ _should_reverse_sync(settings)

UtilSpec == UtilInit /\ [][UtilNext]_vars

---------------------------------------------------------------------------
(* handlers.py: the resource registry's handlers (RegistrySpec) *)

\* Mutant: every model is taken to be registered.
get_resource_models_all(reg) == RegModels

\* get_resource_models(): the model of every resource of the registry; none without one.
get_resource_models(reg) ==
    IF reg.exists THEN {m \in RegModels : m \in reg.resources} ELSE {}

\* The handlers are connected to the signals of the registered models only.
Connected(model) == model \in get_resource_models(registry)

\* Mutant: a Resource is initialised on every save, also when one exists.
update_resource_always_inits(o, count) ==
    [calls |-> <<"init_resource_from_object", "Resource.save">>, count |-> count + 1]

\* update_resource (post_save): Resource.get_resource_for_object(instance) is updated from
\* the object; on Resource.DoesNotExist a Resource is initialised from the object and saved.
update_resource(o, count) ==
    IF count > 0
    THEN [calls |-> <<"Resource.update_from_content_object">>, count |-> count]
    ELSE [calls |-> <<"init_resource_from_object", "Resource.save">>, count |-> count + 1]

\* Mutant: the Resource is left in place.
remove_resource_never(o, count) == [calls |-> <<>>, count |-> count]

\* remove_resource (delete): the object's Resource is deleted; Resource.DoesNotExist is
\* passed over.
remove_resource(o, count) ==
    IF count > 0
    THEN [calls |-> <<"Resource.delete">>, count |-> count - 1]
    ELSE [calls |-> <<>>, count |-> count]

\* obj.save() or Model.objects.create() of object o: the row is written and post_save sent.
RegSave(o) ==
    LET ran == IF Connected(o[1]) THEN update_resource(o, resCount[o])
               ELSE [calls |-> <<>>, count |-> resCount[o]]
    IN /\ stored' = stored \cup {o}
       /\ resCount' = [resCount EXCEPT ![o] = ran.count]
       /\ rcalls' = ran.calls
       /\ revent' = [kind |-> "save", obj |-> o, created |-> (o \notin stored),
                     had |-> (resCount[o] > 0), before |-> resCount]
       /\ UNCHANGED <<registry, settings, handlerVars, utilVars, streamVars, collectVars>>

\* obj.delete() of a stored object o: the delete signal is sent and the row removed.
RegDelete(o) ==
    LET ran == IF Connected(o[1]) THEN remove_resource(o, resCount[o])
               ELSE [calls |-> <<>>, count |-> resCount[o]]
    IN /\ o \in stored
       /\ stored' = stored \ {o}
       /\ resCount' = [resCount EXCEPT ![o] = ran.count]
       /\ rcalls' = ran.calls
       /\ revent' = [kind |-> "delete", obj |-> o, created |-> FALSE,
                     had |-> (resCount[o] > 0), before |-> resCount]
       /\ UNCHANGED <<registry, settings, handlerVars, utilVars, streamVars, collectVars>>

\* obj.delete() through an instance whose row is already gone: the delete signal is sent
\* all the same, and no row is removed.
RegDeleteAgain(o) ==
    LET ran == IF Connected(o[1]) THEN remove_resource(o, resCount[o])
               ELSE [calls |-> <<>>, count |-> resCount[o]]
    IN /\ o \notin stored
       /\ resCount' = [resCount EXCEPT ![o] = ran.count]
       /\ rcalls' = ran.calls
       /\ revent' = [kind |-> "delete_again", obj |-> o, created |-> FALSE,
                     had |-> (resCount[o] > 0), before |-> resCount]
       /\ UNCHANGED <<registry, stored, settings, handlerVars, utilVars, streamVars, collectVars>>

RegistryNext ==
    \/ \E o \in RegObjects : RegSave(o)
    \/ \E o \in RegObjects : RegDelete(o)
    \/ \E o \in RegObjects : RegDeleteAgain(o)

RegistryInit == SyncIdle /\ StreamIdle /\ \E reg \in Registries : RegistryIdle(reg)

RegistrySpec == RegistryInit /\ [][RegistryNext]_vars

---------------------------------------------------------------------------
(* activitystream/signals.py and models/entry.py: the activity stream (StreamSpec) *)

\* The stored row of an object: sender.objects.get(pk=pk), None for sender.DoesNotExist
RowOf(tbl, model, pk) ==
    IF \E r \in tbl : r.model = model /\ r.pk = pk
    THEN CHOOSE r \in tbl : r.model = model /\ r.pk = pk
    ELSE None

\* object_id is a TextField: the pk is stored, and looked up, as text
DigitText == <<"1", "2", "3", "4", "5", "6", "7", "8", "9">>
str(pk) == DigitText[pk]

\* diff(old, new) of ansible_base.lib.utils.models, as Entry.changes documents it: every
\* field of new is added when old is None, every field of old is removed when new is
\* None, and a field whose value differs is changed, as {field_name: [old_value, new_value]}.
diff(old, new) ==
    [added_fields |-> IF IsNone(old) /\ ~IsNone(new)
                      THEN {<<f, new.fields[f]>> : f \in FieldsOf(new.model)} ELSE {},
     removed_fields |-> IF IsNone(new) /\ ~IsNone(old)
                        THEN {<<f, old.fields[f]>> : f \in FieldsOf(old.model)} ELSE {},
     changed_fields |-> IF ~IsNone(old) /\ ~IsNone(new)
                        THEN {<<f, <<old.fields[f], new.fields[f]>>>> :
                                  f \in {g \in FieldsOf(new.model) : old.fields[g] # new.fields[g]}}
                        ELSE {}]

NoChanges == [added_fields |-> {}, removed_fields |-> {}, changed_fields |-> {}]

\* Entry.changes of an Entry created without changes (null=True)
NullChanges == [null |-> TRUE]

\* Entry.objects.create(content_object=..., operation=..., changes=...) at time now
EntryRow(content_object, operation, changes, related, field_name, now) ==
    [content_type |-> content_object.model,
     object_id |-> str(content_object.pk),
     operation |-> operation,
     changes |-> changes,
     related_content_type |-> IF IsNone(related) THEN "None" ELSE related.model,
     related_object_id |-> IF IsNone(related) THEN "None" ELSE str(related.pk),
     related_field_name |-> field_name,
     created |-> now]

\* What a handler did: the exception it raised ("none" if none) and the Entry rows it made.
Did(raised, made) == [raised |-> raised, made |-> made]
Nothing == Did("none", <<>>)

\* Mutant: an Entry is stored also when the diff is empty.
_store_activitystream_entry_stores_empty(old, new, operation, now) ==
    Did("none", <<EntryRow(IF IsNone(new) THEN old ELSE new, operation, diff(old, new),
                           None, "None", now)>>)

\* Mutant: the operation is not checked.
_store_activitystream_entry_any_operation(old, new, operation, now) ==
    IF diff(old, new) = NoChanges \/ (IsNone(old) /\ IsNone(new)) THEN Nothing
    ELSE Did("none", <<EntryRow(IF IsNone(new) THEN old ELSE new, operation, diff(old, new),
                                None, "None", now)>>)

\* _store_activitystream_entry(old, new, operation)
_store_activitystream_entry(old, new, operation, now) ==
    IF operation \notin {"create", "update", "delete"} THEN Did("ValueError", <<>>)
    ELSE LET delta == diff(old, new)
         IN IF delta.added_fields = {} /\ delta.changed_fields = {} /\ delta.removed_fields = {}
            THEN Nothing
            ELSE IF IsNone(old) /\ IsNone(new) THEN Did("ValueError", <<>>)
            ELSE LET content_object == IF IsNone(old) THEN new
                                       ELSE IF IsNone(new) THEN old ELSE new
                 IN Did("none", <<EntryRow(content_object, operation, delta, None, "None", now)>>)

\* Mutant: an Entry is recorded after every save, created or not.
activitystream_create_on_every_save(instance, created, now) ==
    _store_activitystream_entry(None, instance, "create", now)

\* activitystream_create (post_save)
activitystream_create(instance, created, now) ==
    IF ~created THEN Nothing
    ELSE _store_activitystream_entry(None, instance, "create", now)

\* Mutant: the update is compared with nothing instead of the stored row.
activitystream_update_without_old(tbl, instance, now) ==
    IF instance.pk = 0 \/ IsNone(RowOf(tbl, instance.model, instance.pk)) THEN Nothing
    ELSE _store_activitystream_entry(None, instance, "update", now)

\* Mutant: an update is recorded also when no row is stored under the instance's pk.
activitystream_update_for_new_rows(tbl, instance, now) ==
    IF instance.pk = 0 THEN Nothing
    ELSE _store_activitystream_entry(RowOf(tbl, instance.model, instance.pk), instance,
                                     "update", now)

\* activitystream_update (pre_save)
activitystream_update(tbl, instance, now) ==
    IF instance.pk = 0 THEN Nothing
    ELSE LET old == RowOf(tbl, instance.model, instance.pk)
         IN IF IsNone(old) THEN Nothing
            ELSE _store_activitystream_entry(old, instance, "update", now)

\* Mutant: the deletion is recorded as seen from the instance, not from the stored row.
activitystream_delete_of_instance(tbl, instance, now) ==
    IF instance.pk = 0 \/ IsNone(RowOf(tbl, instance.model, instance.pk)) THEN Nothing
    ELSE _store_activitystream_entry(instance, None, "delete", now)

\* activitystream_delete (pre_delete)
activitystream_delete(tbl, instance, now) ==
    IF instance.pk = 0 THEN Nothing
    ELSE LET old == RowOf(tbl, instance.model, instance.pk)
         IN IF IsNone(old) THEN Nothing
            ELSE _store_activitystream_entry(old, None, "delete", now)

\* Mutant: the entries are looked up by object_id alone.
activity_stream_entries_of_any_model(log, self) ==
    SelectSeq(log, LAMBDA e : e.object_id = str(self.pk))

\* AuditableModel.activity_stream_entries: the rows of Entry whose content_type and
\* object_id are those of self, ordered by created.
activity_stream_entries(log, self) ==
    LET found == {k \in 1..Len(log) : /\ log[k].content_type = self.model
                                      /\ log[k].object_id = str(self.pk)}
        order_by == CHOOSE q \in [1..Cardinality(found) -> found] :
                        /\ \A a, b \in 1..Cardinality(found) : a # b => q[a] # q[b]
                        /\ \A a, b \in 1..Cardinality(found) :
                              a < b => log[q[a]].created <= log[q[b]].created
    IN [k \in 1..Cardinality(found) |-> log[order_by[k]]]

\* The creation time of the next Entry: the clock has moved on since the last one.
Now(log) == Len(log) + 1

EntrySteps(did) == [k \in 1..Len(did.made) |-> "Entry.objects.create"]

\* instance.save() of an auditable object that came with pk `given` (0: pk None): pre_save,
\* then UPDATE of the stored row, or INSERT (under a new pk when none was given), then
\* post_save with created.
StreamSave(model, given, fields) ==
    \E pk \in Pks :
        LET coming == Instance(model, given, fields)
            old == IF given = 0 THEN None ELSE RowOf(rows, model, given)
            created == IsNone(old)
            pre == activitystream_update(rows, coming, Now(entries))
            saved == Instance(model, pk, fields)
            post == activitystream_create(saved, created, Now(entries \o pre.made))
        IN /\ Len(entries) < MaxEntries
           /\ IF given = 0 THEN IsNone(RowOf(rows, model, pk)) ELSE pk = given
           /\ rows' = (rows \ {old}) \cup {saved}
           /\ entries' = entries \o pre.made \o post.made
           /\ sevent' = [NoStreamEvent EXCEPT
                            !.kind = "save", !.instance = saved, !.given = given,
                            !.created = created, !.old = old, !.before = Len(entries),
                            !.steps = <<"pre_save">> \o EntrySteps(pre)
                                      \o <<IF created THEN "INSERT" ELSE "UPDATE", "post_save">>
                                      \o EntrySteps(post)]
           /\ UNCHANGED <<links, settings, handlerVars, utilVars, registryVars, collectVars>>

\* pre_delete for an instance (pk 0: it has none), then the DELETE of its row.
StreamDelete(model, pk, fields) ==
    LET instance == Instance(model, pk, fields)
        old == RowOf(rows, model, pk)
        pre == activitystream_delete(rows, instance, Now(entries))
    IN /\ Len(entries) < MaxEntries
       /\ rows' = rows \ {old}
       /\ links' = {l \in links : l[IF model = "Animal" THEN 1 ELSE 2] # pk}
       /\ entries' = entries \o pre.made
       /\ sevent' = [NoStreamEvent EXCEPT
                        !.kind = "delete", !.instance = instance, !.given = pk,
                        !.old = old, !.before = Len(entries),
                        !.steps = <<"pre_delete">> \o EntrySteps(pre) \o <<"DELETE">>]
       /\ UNCHANGED <<settings, handlerVars, utilVars, registryVars, collectVars>>

\* The elements of a set of pks in ascending order.
Ascending(S) ==
    CHOOSE q \in [1..Cardinality(S) -> S] : \A a, b \in 1..Cardinality(S) : a < b => q[a] < q[b]

\* Mutant: the instance the signal came for is always the content object.
_store_activitystream_m2m_as_given(tbl, given_instance, model, operation, pk_set, reverse, field_name, now) ==
    LET found == Ascending({r.pk : r \in {x \in tbl : x.model = model /\ x.pk \in pk_set}})
    IN Did("none", [k \in 1..Len(found) |->
                       EntryRow(given_instance, operation, NullChanges,
                                RowOf(tbl, model, found[k]), field_name, now + k - 1)])

\* _store_activitystream_m2m(given_instance, model, operation, pk_set, reverse, field_name)
_store_activitystream_m2m(tbl, given_instance, model, operation, pk_set, reverse, field_name, now) ==
    IF operation \notin {"associate", "disassociate"} THEN Did("ValueError", <<>>)
    ELSE LET found == Ascending({r.pk : r \in {x \in tbl : x.model = model /\ x.pk \in pk_set}})
         IN Did("none", [k \in 1..Len(found) |->
                LET instance == RowOf(tbl, model, found[k])
                IN EntryRow(IF reverse THEN instance ELSE given_instance, operation, NullChanges,
                            IF reverse THEN given_instance ELSE instance, field_name,
                            now + k - 1)])

\* The many-to-many field of Animal, and the model on each side of it.
M2MField == "people"
Owner == "Animal"
Target == "User"

\* Actions of m2m_changed
M2MActions == {"pre_add", "post_add", "pre_remove", "post_remove", "pre_clear", "post_clear"}

\* model.objects.filter(**{field_name: instance}): pks of the owners related to instance
OwnersOf(tbl, lnk, instance) ==
    {r.pk : r \in {x \in tbl : x.model = Owner /\ <<x.pk, instance.pk>> \in lnk}}

\* getattr(instance, field_name).all(): pks of the objects in the instance's field
TargetsOf(tbl, lnk, instance) ==
    {r.pk : r \in {x \in tbl : x.model = Target /\ <<instance.pk, x.pk>> \in lnk}}

\* Mutant: every recorded action is an 'associate'.
activitystream_m2m_changed_always_associate(tbl, lnk, instance, action, reverse, model, pk_set, kwargs, now) ==
    IF action \notin {"post_add", "post_remove", "pre_clear"} THEN Nothing
    ELSE _store_activitystream_m2m(tbl, instance, model, "associate",
             IF action # "pre_clear" THEN pk_set
             ELSE IF reverse THEN OwnersOf(tbl, lnk, instance)
             ELSE TargetsOf(tbl, lnk, instance),
             reverse, M2MField, now)

\* Mutant: field_name is required before the action is looked at.
activitystream_m2m_changed_field_name_first(tbl, lnk, instance, action, reverse, model, pk_set, kwargs, now) ==
    IF "field_name" \notin kwargs THEN Did("ValueError", <<>>)
    ELSE activitystream_m2m_changed_always_associate(tbl, lnk, instance, action, reverse,
                                                     model, pk_set, kwargs, now)

\* Mutant: a clear is recorded when post_clear arrives instead of pre_clear.
activitystream_m2m_changed_at_post_clear(tbl, lnk, instance, action, reverse, model, pk_set, kwargs, now) ==
    IF action \notin {"post_add", "post_remove", "post_clear"} THEN Nothing
    ELSE IF "field_name" \notin kwargs THEN Did("ValueError", <<>>)
    ELSE _store_activitystream_m2m(tbl, instance, model,
             IF action = "post_add" THEN "associate" ELSE "disassociate",
             IF action # "post_clear" THEN pk_set
             ELSE IF reverse THEN OwnersOf(tbl, lnk, instance)
             ELSE TargetsOf(tbl, lnk, instance),
             reverse, M2MField, now)

\* activitystream_m2m_changed; kwargs are the names of the keyword arguments it got
\* besides those it declares.
activitystream_m2m_changed(tbl, lnk, instance, action, reverse, model, pk_set, kwargs, now) ==
    IF action \notin {"post_add", "post_remove", "pre_clear"} THEN Nothing
    ELSE IF "field_name" \notin kwargs THEN Did("ValueError", <<>>)
    ELSE LET field_name == M2MField
             operation == IF action = "post_add" THEN "associate" ELSE "disassociate"
             pks == IF action = "pre_clear"
                    THEN IF reverse THEN OwnersOf(tbl, lnk, instance)
                         ELSE TargetsOf(tbl, lnk, instance)
                    ELSE pk_set
         IN _store_activitystream_m2m(tbl, instance, model, operation, pks, reverse,
                                      field_name, now)

\* The rows of the through table between instance and the pks on the other side.
Pairs(instance, reverse, pks) ==
    IF reverse THEN {<<p, instance.pk>> : p \in pks} ELSE {<<instance.pk, p>> : p \in pks}

\* A change of the relation through the related manager of a stored instance: `change`
\* is "add", "remove" or "clear"; reverse tells the side (animal.people or the users'
\* reverse manager); the m2m_changed receiver gets kwargs.  Django sends the pre_ signal,
\* changes the through table and sends the post_ signal, all in one atomic block, so an
\* exception of the receiver leaves table and stream as they were.
M2MChange(instance, change, reverse, pks, kwargs) ==
    LET model == IF reverse THEN Owner ELSE Target
        pk_set == IF change = "add" THEN pks \ {l[IF reverse THEN 1 ELSE 2] :
                                                   l \in links \cap Pairs(instance, reverse, pks)}
                  ELSE IF change = "remove" THEN pks ELSE {}
        pre == activitystream_m2m_changed(rows, links, instance, "pre_" \o change, reverse,
                                          model, pk_set, kwargs, Now(entries))
        written == IF change = "add" THEN links \cup Pairs(instance, reverse, pk_set)
                   ELSE IF change = "remove" THEN links \ Pairs(instance, reverse, pk_set)
                   ELSE links \ Pairs(instance, reverse, Pks)
        post == IF pre.raised # "none" THEN Nothing
                ELSE activitystream_m2m_changed(rows, written, instance, "post_" \o change,
                         reverse, model, pk_set, kwargs, Now(entries \o pre.made))
        raised == IF pre.raised # "none" THEN pre.raised ELSE post.raised
    IN /\ Len(entries) < MaxEntries
       /\ instance \in rows
       /\ instance.model = (IF reverse THEN Target ELSE Owner)
       /\ change = "add" => \A p \in pks : ~IsNone(RowOf(rows, model, p))
       /\ change = "clear" => pks = {}
       /\ Len(entries \o pre.made \o post.made) <= MaxEntries
       /\ links' = IF raised = "none" THEN written ELSE links
       /\ entries' = IF raised = "none" THEN entries \o pre.made \o post.made ELSE entries
       /\ sevent' = [NoStreamEvent EXCEPT
                        !.kind = "m2m", !.instance = instance, !.given = instance.pk,
                        !.action = IF change = "clear" THEN "pre_clear" ELSE "post_" \o change,
                        !.reverse = reverse, !.model = model, !.pk_set = pk_set,
                        !.field_name = IF "field_name" \in kwargs THEN M2MField ELSE "-",
                        !.linked = links, !.before = Len(entries), !.raised = raised,
                        !.steps = <<"pre_" \o change>> \o EntrySteps(pre)
                                  \o (IF pre.raised # "none" THEN <<>>
                                      ELSE <<"through", "post_" \o change>> \o EntrySteps(post))]
       /\ UNCHANGED <<rows, settings, handlerVars, utilVars, registryVars, collectVars>>

M2MNext ==
    \E instance \in rows, change \in {"add", "remove", "clear"}, reverse \in BOOLEAN,
       pks \in SUBSET Pks, kwargs \in {{}, {"field_name"}} :
          M2MChange(instance, change, reverse, pks, kwargs)

\* Every Animal is stored, and every User but the one with the last pk; none is related.
M2MInit ==
    /\ SyncIdle /\ RegistryIdle(TestAppRegistry)
    /\ rows = {Instance(Owner, pk, [f \in FieldsOf(Owner) |-> "a"]) : pk \in Pks}
              \cup {Instance(Target, pk, [f \in FieldsOf(Target) |-> "a"]) : pk \in Pks \ {MaxPk}}
    /\ links = {}
    /\ entries = <<>>
    /\ sevent = NoStreamEvent

M2MSpec == M2MInit /\ [][M2MNext]_vars

StreamNext ==
    \/ \E model \in StreamModels, given \in {0} \cup Pks :
          \E fields \in FieldValues(model) : StreamSave(model, given, fields)
    \/ \E model \in StreamModels, pk \in {0} \cup Pks :
          \E fields \in FieldValues(model) : StreamDelete(model, pk, fields)

StreamInit == SyncIdle /\ RegistryIdle(TestAppRegistry) /\ StreamIdle

StreamSpec == StreamInit /\ [][StreamNext]_vars

\* m2m_changed arrives at the receiver for a stored instance, with any action and with or
\* without field_name among its keyword arguments; pk_set is as the sender gives it.
M2MSignal(instance, action, pk_set, kwargs) ==
    LET reverse == instance.model = Target
        model == IF reverse THEN Owner ELSE Target
        did == activitystream_m2m_changed(rows, links, instance, action, reverse, model,
                                          pk_set, kwargs, Now(entries))
    IN /\ Len(entries) < MaxEntries
       /\ Len(entries \o did.made) <= MaxEntries
       /\ entries' = entries \o did.made
       /\ sevent' = [NoStreamEvent EXCEPT
                        !.kind = "signal", !.instance = instance, !.action = action,
                        !.reverse = reverse, !.model = model, !.pk_set = pk_set,
                        !.field_name = IF "field_name" \in kwargs THEN M2MField ELSE "-",
                        !.linked = links, !.before = Len(entries), !.raised = did.raised,
                        !.steps = EntrySteps(did)]
       /\ UNCHANGED <<rows, links, settings, handlerVars, utilVars, registryVars, collectVars>>

SignalNext ==
    \E instance \in rows, action \in M2MActions, pk_set \in {{1}, Pks},
       kwargs \in {{}, {"field_name"}} :
          M2MSignal(instance, action, pk_set, kwargs)

\* The stored objects of M2MInit; the first Animal has the first User among its people.
SignalInit ==
    /\ SyncIdle /\ RegistryIdle(TestAppRegistry)
    /\ rows = {Instance(Owner, pk, [f \in FieldsOf(Owner) |-> "a"]) : pk \in Pks}
              \cup {Instance(Target, pk, [f \in FieldsOf(Target) |-> "a"]) : pk \in Pks \ {MaxPk}}
    /\ links = {<<1, 1>>}
    /\ entries = <<>>
    /\ sevent = NoStreamEvent

SignalSpec == SignalInit /\ [][SignalNext]_vars

\* Operation values a caller can pass: Entry.OPERATION_CHOICES and one that is none of them.
AnyOperation == {"create", "update", "delete", "associate", "disassociate", "archive"}

\* The old and new a caller passes for stored object x: both None, x as new, x as old, x
\* unchanged, or x with its name changed.
Shapes == {"both_none", "new", "old", "same", "changed"}
OldOf(x, shape) == IF shape \in {"both_none", "new"} THEN None ELSE x
NewOf(x, shape) ==
    IF shape \in {"both_none", "old"} THEN None
    ELSE IF shape = "changed"
    THEN [x EXCEPT !.fields.name = IF x.fields.name = "a" THEN "b" ELSE "a"]
    ELSE x

\* A call _store_activitystream_entry(old, new, operation).  Its only database access is
\* Entry.objects.create.
StoreEntryCall(x, shape, operation) ==
    LET old == OldOf(x, shape)
        new == NewOf(x, shape)
        did == _store_activitystream_entry(old, new, operation, Now(entries))
    IN /\ Len(entries) < MaxEntries
       /\ entries' = entries \o did.made
       /\ sevent' = [NoStreamEvent EXCEPT
                        !.kind = "store", !.instance = new, !.old = old, !.action = operation,
                        !.before = Len(entries), !.raised = did.raised,
                        !.steps = EntrySteps(did)]
       /\ UNCHANGED <<rows, links, settings, handlerVars, utilVars, registryVars, collectVars>>

\* A call _store_activitystream_m2m(given_instance, model, operation, pk_set, reverse,
\* field_name).  It reads model.objects.filter(pk__in=pk_set), then creates the entries.
StoreM2MCall(given_instance, operation, pk_set, reverse) ==
    LET model == IF reverse THEN Owner ELSE Target
        did == _store_activitystream_m2m(rows, given_instance, model, operation, pk_set,
                                         reverse, M2MField, Now(entries))
    IN /\ Len(entries) < MaxEntries
       /\ given_instance.model = (IF reverse THEN Target ELSE Owner)
       /\ Len(entries \o did.made) <= MaxEntries
       /\ entries' = entries \o did.made
       /\ sevent' = [NoStreamEvent EXCEPT
                        !.kind = "store_m2m", !.instance = given_instance,
                        !.action = operation, !.reverse = reverse, !.model = model,
                        !.pk_set = pk_set, !.field_name = M2MField,
                        !.before = Len(entries), !.raised = did.raised,
                        !.steps = IF did.raised # "none" THEN <<>>
                                  ELSE <<"model.objects.filter">> \o EntrySteps(did)]
       /\ UNCHANGED <<rows, links, settings, handlerVars, utilVars, registryVars, collectVars>>

StoreNext ==
    \/ \E x \in rows, shape \in Shapes, operation \in AnyOperation :
          StoreEntryCall(x, shape, operation)
    \/ \E given_instance \in rows, operation \in AnyOperation,
          pk_set \in {{pk} : pk \in Pks} \cup {Pks} :
          StoreM2MCall(given_instance, operation, pk_set, given_instance.model = Target)

\* The stored objects of M2MInit, the creation of the first Animal being recorded.
StoreInit ==
    /\ SyncIdle /\ RegistryIdle(TestAppRegistry)
    /\ rows = {Instance(Owner, pk, [f \in FieldsOf(Owner) |-> "a"]) : pk \in Pks}
              \cup {Instance(Target, pk, [f \in FieldsOf(Target) |-> "a"]) : pk \in Pks \ {MaxPk}}
    /\ links = {}
    /\ entries = activitystream_create(RowOf(rows, Owner, 1), TRUE, 1).made
    /\ sevent = NoStreamEvent

StoreSpec == StoreInit /\ [][StoreNext]_vars

---------------------------------------------------------------------------
(* Properties *)

\* The settings as the property of _should_reverse_sync states them.
SyncDisabledSetting == settings.DISABLE_RESOURCE_SERVER_SYNC = "True"
ResourceServerSet == settings.RESOURCE_SERVER = "{url}"
ServicePathSet == settings.RESOURCE_SERVICE_PATH = "/foo"
ReverseSyncOn == ~SyncDisabledSetting /\ ResourceServerSet /\ ServicePathSet

ClientEvents == {"get_resource_server_client", "create_resource", "update_resource",
                 "delete_resource"}
RequestEvents == {"create_resource", "update_resource", "delete_resource"}
TransactionQueries == {"BEGIN", "SAVEPOINT", "COMMIT", "RELEASE SAVEPOINT", "ROLLBACK",
                       "ROLLBACK TO SAVEPOINT"}

Count(seq, set) == Cardinality({k \in 1..Len(seq) : seq[k] \in set})
EndsWith(seq, suffix) ==
    /\ Len(seq) >= Len(suffix)
    /\ SubSeq(seq, Len(seq) - Len(suffix) + 1, Len(seq)) = suffix

\* The post-signal handler of the operation has run and returned.
SyncReturned == op.phase = "done" /\ op.chg # 0

\* The operation's transaction was exited with an exception: rolled back, closed.
ExitedRolledBack ==
    /\ Len(stack) = op.depth0
    /\ \/ trace[1] = "BEGIN" /\ EndsWith(trace, <<"ROLLBACK">>)
       \/ trace[1] = "SAVEPOINT"
          /\ EndsWith(trace, <<"ROLLBACK TO SAVEPOINT", "RELEASE SAVEPOINT">>)
    /\ op.chg \notin applied
    /\ op.chg \notin durable

\* The operation's transaction was exited without an exception: released, closed.
ExitedCommitted ==
    /\ Len(stack) = op.depth0
    /\ \/ trace[1] = "BEGIN" /\ EndsWith(trace, <<"COMMIT">>)
       \/ trace[1] = "SAVEPOINT" /\ EndsWith(trace, <<"RELEASE SAVEPOINT">>)
          /\ ~EndsWith(trace, <<"ROLLBACK TO SAVEPOINT", "RELEASE SAVEPOINT">>)
    /\ Count(trace, {"ROLLBACK", "ROLLBACK TO SAVEPOINT"}) = 0
    /\ op.chg \in applied
    /\ (op.depth0 = 0 => op.chg \in durable)

\* C1: with reverse sync enabled and the instance's transaction opened by the
\* pre-signal, an exception raised while sync_to_resource_server syncs exits that
\* transaction with the exception (the local change is rolled back, not committed) and a
\* ValidationError reaches the caller.
C1_SyncExceptionRollsBack ==
    (SyncReturned /\ ReverseSyncOn /\ hasTxn[op.inst] /\ op.exc)
        => (result = "ValidationError" /\ ExitedRolledBack /\ op.chg \notin accepted)

C1_Witness ==
    /\ SyncReturned /\ ReverseSyncOn /\ op.exc
    /\ op.action = "create"
    /\ result = "ValidationError"
    /\ trace = <<"SAVEPOINT", "INSERT", "get_resource_server_client", "create_resource",
                 "ROLLBACK TO SAVEPOINT", "RELEASE SAVEPOINT">>

\* C2: the resource server never holds an accepted create/update/delete whose local
\* change is rolled back or not committed: every accepted change is in the local state.
C2_NoSyncOfUndoneChange == accepted \subseteq applied

\* C3: on the happy path (reverse sync enabled, a user with an ansible_id, an instance
\* with a resource, nothing raises) the operation is, in this order: the transaction or
\* savepoint opened, the local write, the client obtained and exactly one client method
\* called, the one of the action, and last the release of the savepoint (the commit).
C3_HappyPathOrder ==
    (SyncReturned /\ ReverseSyncOn /\ op.user = "user" /\ op.resource = "ok" /\ ~op.exc)
        => /\ Len(trace) = 5
           /\ trace[1] \in {"BEGIN", "SAVEPOINT"}
           /\ trace[2] = (CASE op.action = "create" -> "INSERT"
                            [] op.action = "update" -> "UPDATE"
                            [] op.action = "delete" -> "DELETE")
           /\ trace[3] = "get_resource_server_client"
           /\ trace[4] = (CASE op.action = "create" -> "create_resource"
                            [] op.action = "update" -> "update_resource"
                            [] op.action = "delete" -> "delete_resource")
           /\ trace[5] = (IF trace[1] = "BEGIN" THEN "COMMIT" ELSE "RELEASE SAVEPOINT")
           /\ Count(trace, RequestEvents) = 1
           /\ result = "ok"
           /\ op.chg \in accepted

C3_Witness ==
    /\ SyncReturned /\ ReverseSyncOn /\ op.user = "user" /\ op.resource = "ok" /\ ~op.exc
    /\ trace = <<"SAVEPOINT", "DELETE", "get_resource_server_client", "delete_resource",
                 "RELEASE SAVEPOINT">>

\* C4: when the local save() raises after the pre_save handler opened the transaction,
\* that transaction is rolled back (it does not stay open) and nothing is synced.
C4_FailedSaveRollsBack ==
    (op.phase = "done" /\ result = "IntegrityError" /\ ReverseSyncOn)
        => /\ Len(stack) = op.depth0
           /\ Count(trace, {"ROLLBACK", "ROLLBACK TO SAVEPOINT"}) = 1
           /\ Count(trace, ClientEvents) = 0

\* C5: _should_reverse_sync() is True exactly when DISABLE_RESOURCE_SERVER_SYNC is unset
\* or falsy, RESOURCE_SERVER is set and truthy and RESOURCE_SERVICE_PATH is set and truthy.
C5_ShouldReverseSync ==
    _should_reverse_sync(settings)
        <=> /\ settings.DISABLE_RESOURCE_SERVER_SYNC \in {"unset", "False"}
            /\ settings.RESOURCE_SERVER \notin {"unset", "{}"}
            /\ settings.RESOURCE_SERVICE_PATH \notin {"unset", "''"}

\* The handlers have consulted _should_reverse_sync() under settings that enable the sync
\* with DISABLE_RESOURCE_SERVER_SYNC unset, and opened the transaction.
C5_Witness ==
    /\ settings.DISABLE_RESOURCE_SERVER_SYNC = "unset"
    /\ ResourceServerSet /\ ServicePathSet
    /\ op.phase = "pre"
    /\ hasTxn[op.inst]

\* C6: when _should_reverse_sync() is False the sync handlers do nothing: no transaction
\* is opened and no _transaction attribute is set by the pre-signal handlers, and
\* sync_to_resource_server obtains no client, sends nothing, exits no transaction and
\* raises nothing.
C6_DisabledNoEffect ==
    ~ReverseSyncOn
        => /\ \A i \in Instances : ~hasTxn[i]
           /\ Len(stack) = callerDepth
           /\ Count(trace, ClientEvents \cup TransactionQueries) = 0
           /\ accepted = {}
           /\ result # "ValidationError"
           /\ (SyncReturned => result = "ok" /\ op.chg \in applied)

C6_Witness ==
    /\ ~ReverseSyncOn
    /\ SyncReturned
    /\ op.user = "user" /\ op.resource = "ok"
    /\ trace = <<"INSERT">>

\* C7: syncing an instance without a resource (None, Resource.DoesNotExist, or an empty
\* ansible_id) obtains no client, sends nothing and raises nothing, and the local save
\* completes with its transaction committed.
C7_NoResourceNoOp ==
    (SyncReturned /\ ReverseSyncOn /\ op.resource \in {"None", "DoesNotExist", "no_ansible_id"})
        => /\ Count(trace, ClientEvents) = 0
           /\ op.chg \notin accepted
           /\ result = "ok"
           /\ ExitedCommitted

C7_Witness ==
    /\ SyncReturned /\ ReverseSyncOn /\ op.resource = "DoesNotExist" /\ op.user = "user"
    /\ trace = <<"SAVEPOINT", "UPDATE", "RELEASE SAVEPOINT">>

\* C8: in the signal-handler sync, without a current user or with a user that has no
\* resource/ansible_id (AnonymousUser), no client is obtained, nothing is sent, nothing
\* is raised, and the transaction the pre-signal opened is exited without an exception.
C8_UnauthenticatedSkips ==
    (SyncReturned /\ ReverseSyncOn /\ op.user \in {"None", "AnonymousUser"})
        => /\ Count(trace, ClientEvents) = 0
           /\ op.chg \notin accepted
           /\ result = "ok"
           /\ ExitedCommitted

C8_Witness ==
    /\ SyncReturned /\ ReverseSyncOn /\ op.user = "AnonymousUser" /\ op.resource = "ok"
    /\ trace = <<"SAVEPOINT", "INSERT", "RELEASE SAVEPOINT">>

\* The utility sync got as far as the request: the instance has a resource, and neither
\* the client nor the serializer raised.
UtilReachedRequest ==
    /\ ucall.inst # 0
    /\ ucall.resource = "ok"
    /\ ucall.fail \notin {"client", "serializer"}
    /\ ucall.action \in Actions

\* C9: in the utility sync a missing user or a user without ansible_id does not skip the
\* sync: the client is obtained with jwt_user_id=None and the request is sent; with a
\* user that has an ansible_id the client is obtained with that ansible_id.
C9_UtilSyncsAsNone ==
    UtilReachedRequest
        => /\ Len(utrace) = 2
           /\ utrace[1].call = "get_resource_server_client"
           /\ (ucall.user \in {"None", "AnonymousUser"} => utrace[1].arg = "None")
           /\ (ucall.user = "user" => utrace[1].arg = "user.resource.ansible_id")
           /\ utrace[2].call = (CASE ucall.action = "create" -> "create_resource"
                                  [] ucall.action = "update" -> "update_resource"
                                  [] ucall.action = "delete" -> "delete_resource")

C9_Witness ==
    /\ UtilReachedRequest
    /\ ucall.user = "AnonymousUser"
    /\ ucall.action = "create"
    /\ utrace = <<[call |-> "get_resource_server_client", arg |-> "None"],
                  [call |-> "create_resource", arg |-> "body"]>>
    /\ uresult = "ok"

\* C10: for an instance that came from the resource server (_is_from_resource_server is
\* True) the sync bails out: no client is obtained and nothing is sent.
C10_FromResourceServerBailsOut ==
    (ucall.inst # 0 /\ ucall.from_rs) => utrace = <<>>

\* The model of the last event's object is registered in the resource registry.
EventRegistered == registry.exists /\ revent.obj[1] \in registry.resources

\* C11: for a registered model each lifecycle event triggers exactly one resource
\* operation: creating the object calls init_resource_from_object once (and saves the
\* new Resource), saving an object that has a Resource calls
\* Resource.update_from_content_object once, deleting the object calls Resource.delete once.
C11_RegisteredOneOperation ==
    EventRegistered
        => /\ (revent.kind = "save" /\ revent.created)
                => /\ rcalls = <<"init_resource_from_object", "Resource.save">>
                   /\ resCount[revent.obj] = 1
           /\ (revent.kind = "save" /\ revent.had)
                => /\ rcalls = <<"Resource.update_from_content_object">>
                   /\ resCount = revent.before
           /\ revent.kind = "delete"
                => /\ rcalls = <<"Resource.delete">>
                   /\ resCount[revent.obj] = 0

\* An object of a registered model was created, then saved again.
C11_Witness ==
    /\ EventRegistered
    /\ revent.kind = "save" /\ ~revent.created /\ revent.had
    /\ rcalls = <<"Resource.update_from_content_object">>

\* C12: for a model that is not registered, create, update and delete trigger no resource
\* operation (init_resource_from_object, Resource.update_from_content_object and
\* Resource.delete are not called) and the Resource rows are unchanged.
C12_UnregisteredNoOperation ==
    (revent.kind # "none" /\ ~EventRegistered)
        => /\ rcalls = <<>>
           /\ resCount = revent.before

\* An object of an unregistered model is deleted while a registry with other models exists.
C12_Witness ==
    /\ registry = TestAppRegistry
    /\ revent.kind = "delete"
    /\ revent.obj[1] = "EncryptionModel"
    /\ rcalls = <<>>

\* The Entry rows recorded during the last event of the activity stream.
Made == SubSeq(entries, sevent.before + 1, Len(entries))

MadeOperations == {Made[k].operation : k \in 1..Len(Made)}

\* Entry e is keyed on object x: its content_type and object_id are x's model and pk.
KeyedOn(e, x) == e.content_type = x.model /\ e.object_id = str(x.pk)

\* C13: activitystream_create (post_save with created=True) records exactly one Entry
\* with operation 'create' whose content object is the new instance and whose changes are
\* diff(None, instance); with created=False it records nothing.
C13_CreateRecorded ==
    sevent.kind = "save"
        => /\ sevent.created
                => /\ Len(Made) = 1
                   /\ Made[1].operation = "create"
                   /\ KeyedOn(Made[1], sevent.instance)
                   /\ Made[1].changes = diff(None, sevent.instance)
                   /\ sevent.steps = <<"pre_save", "INSERT", "post_save", "Entry.objects.create">>
           /\ ~sevent.created
                => /\ "create" \notin MadeOperations
                   /\ sevent.steps[Len(sevent.steps)] = "post_save"

\* A new Animal was saved without a pk and its creation recorded.
C13_Witness ==
    /\ sevent.kind = "save" /\ sevent.created /\ sevent.given = 0
    /\ sevent.instance.model = "Animal"
    /\ Len(Made) = 1 /\ Made[1].operation = "create"
    /\ Made[1].changes.added_fields = {<<"name", "a">>, <<"kind", "b">>}

\* The fields whose value differs between the stored row and the instance being saved.
ChangedFields ==
    {f \in FieldsOf(sevent.instance.model) : sevent.old.fields[f] # sevent.instance.fields[f]}

\* C14: when an existing object is saved with at least one changed field, pre_save
\* (activitystream_update) records exactly one Entry with operation 'update', keyed on
\* that object, whose changes are diff(stored old, new instance); changed_fields maps
\* each changed field to [old value, new value].
C14_UpdateRecorded ==
    (sevent.kind = "save" /\ ~IsNone(sevent.old) /\ ChangedFields # {})
        => /\ Len(Made) = 1
           /\ Made[1].operation = "update"
           /\ KeyedOn(Made[1], sevent.old)
           /\ Made[1].changes = diff(sevent.old, sevent.instance)
           /\ Made[1].changes.changed_fields =
                  {<<f, <<sevent.old.fields[f], sevent.instance.fields[f]>>>> : f \in ChangedFields}
           /\ sevent.steps = <<"pre_save", "Entry.objects.create", "UPDATE", "post_save">>

\* A stored Animal was saved with kind changed from a to b and name left alone.
C14_Witness ==
    /\ sevent.kind = "save" /\ ~IsNone(sevent.old)
    /\ sevent.instance.model = "Animal"
    /\ ChangedFields = {"kind"}
    /\ Len(Made) = 1
    /\ Made[1].changes.changed_fields = {<<"kind", <<"a", "b">>>>}

\* C15: deleting a stored auditable object records, in pre_delete and so before the row
\* is removed, exactly one Entry with operation 'delete' whose content object is the old
\* object and whose changes are diff(old, None); if the instance has no pk or no row is
\* stored under it, nothing is recorded and nothing raised.
C15_DeleteRecorded ==
    sevent.kind = "delete"
        => /\ ~IsNone(sevent.old)
                => /\ Len(Made) = 1
                   /\ Made[1].operation = "delete"
                   /\ KeyedOn(Made[1], sevent.old)
                   /\ Made[1].changes = diff(sevent.old, None)
                   /\ sevent.steps = <<"pre_delete", "Entry.objects.create", "DELETE">>
           /\ (sevent.given = 0 \/ IsNone(sevent.old))
                => /\ Made = <<>>
                   /\ sevent.raised = "none"

\* A stored Animal is deleted through an instance whose fields differ from the row.
C15_Witness ==
    /\ sevent.kind = "delete" /\ ~IsNone(sevent.old)
    /\ sevent.old.fields # sevent.instance.fields
    /\ Len(Made) = 1 /\ Made[1].operation = "delete"
    /\ RowOf(rows, sevent.old.model, sevent.old.pk) = None

\* C19: saving an existing object whose diff against the stored row is empty records no
\* Entry (_store_activitystream_entry returns None).
C19_EmptyDiffNotRecorded ==
    (sevent.kind = "save" /\ ~IsNone(sevent.old)
        /\ diff(sevent.old, sevent.instance) = NoChanges)
        => Made = <<>>

\* A stored object was saved again with the values it already had.
C19_Witness ==
    /\ sevent.kind = "save" /\ ~sevent.created
    /\ sevent.old = sevent.instance
    /\ sevent.steps = <<"pre_save", "UPDATE", "post_save">>
    /\ entries # <<>>

\* C20: every save records at most one Entry and never both kinds: for a new object (pk
\* None, or a pre-assigned pk with no stored row) pre_save records no 'update' and
\* post_save records one 'create'; for an existing object pre_save records at most one
\* 'update' and post_save records no 'create'.
C20_OneEntryPerSave ==
    sevent.kind = "save"
        => /\ Len(Made) <= 1
           /\ (sevent.given = 0 \/ IsNone(sevent.old))
                => /\ MadeOperations = {"create"}
                   /\ sevent.steps = <<"pre_save", "INSERT", "post_save", "Entry.objects.create">>
           /\ (sevent.given # 0 /\ ~IsNone(sevent.old))
                => /\ MadeOperations \subseteq {"update"}
                   /\ sevent.steps[Len(sevent.steps)] = "post_save"

\* An object was saved under a pre-assigned pk that no row had.
C20_Witness ==
    /\ sevent.kind = "save" /\ sevent.given # 0 /\ IsNone(sevent.old)
    /\ sevent.instance.pk = sevent.given
    /\ MadeOperations = {"create"}

\* Entry e has x as its related object.
RelatedTo(e, x) == e.related_content_type = x.model /\ e.related_object_id = str(x.pk)

\* The pks the last many-to-many change was about: pk_set of the signal, and for a clear
\* (whose pk_set is None) the objects related to the instance when pre_clear was sent.
ChangedPks ==
    IF sevent.action # "pre_clear" THEN sevent.pk_set
    ELSE IF sevent.reverse THEN {l[1] : l \in {x \in sevent.linked : x[2] = sevent.instance.pk}}
    ELSE {l[2] : l \in {x \in sevent.linked : x[1] = sevent.instance.pk}}

\* Those of them that exist in the related model.
ChangedObjects == {r \in rows : r.model = sevent.model /\ r.pk \in ChangedPks}

\* C16: for a many-to-many change activitystream_m2m_changed records one Entry per related
\* object in pk_set that exists in the related model, with operation 'associate' for
\* post_add and 'disassociate' for post_remove and pre_clear; each Entry carries the
\* related object and the field name of the relation (related_field_name).
C16_M2MRecorded ==
    (sevent.kind = "m2m" /\ sevent.raised = "none")
        => /\ Len(Made) = Cardinality(ChangedObjects)
           /\ \A r \in ChangedObjects :
                 \E k \in 1..Len(Made) :
                    \/ KeyedOn(Made[k], sevent.instance) /\ RelatedTo(Made[k], r)
                    \/ KeyedOn(Made[k], r) /\ RelatedTo(Made[k], sevent.instance)
           /\ \A k \in 1..Len(Made) :
                 /\ Made[k].operation =
                        (IF sevent.action = "post_add" THEN "associate" ELSE "disassociate")
                 /\ Made[k].related_field_name = M2MField
                 /\ Made[k].related_content_type \in StreamModels

\* Users were removed from an Animal's field by pk, one of them not a stored User: one
\* Entry is recorded.
C16_Witness ==
    /\ sevent.kind = "m2m" /\ sevent.raised = "none"
    /\ sevent.action = "post_remove" /\ ~sevent.reverse
    /\ MaxPk \in sevent.pk_set
    /\ Cardinality(sevent.pk_set) = 2
    /\ Len(Made) = 1 /\ Made[1].operation = "disassociate"

\* An Entry without its creation time.
WithoutTime(e) == [e EXCEPT !.created = 0]

\* The Entry a change from the forward side records for owner a and target u.
ForwardEntry(a, u, operation) ==
    WithoutTime(_store_activitystream_m2m(rows, a, Target, operation, {u.pk}, FALSE,
                                          M2MField, 0).made[1])

\* C17: a many-to-many Entry is always stored on the forward relation: a change from the
\* reverse side (reverse=True) records, for each pair of objects, the Entry the same
\* change from the forward side (reverse=False) records: its content object is the
\* object of the model that owns the field, its related object the one on the other side.
C17_StoredOnForwardRelation ==
    (sevent.kind = "m2m" /\ sevent.raised = "none")
        => \A k \in 1..Len(Made) :
              /\ Made[k].content_type = Owner
              /\ Made[k].related_content_type = Target
              /\ sevent.reverse
                    => \E a \in ChangedObjects :
                          WithoutTime(Made[k]) = ForwardEntry(a, sevent.instance, Made[k].operation)
              /\ ~sevent.reverse
                    => \E u \in ChangedObjects :
                          WithoutTime(Made[k]) = ForwardEntry(sevent.instance, u, Made[k].operation)

\* A pair associated from the forward side is disassociated from the reverse side: both
\* Entries have the same content object and the same related object.
C17_Witness ==
    /\ sevent.kind = "m2m" /\ sevent.reverse /\ sevent.action = "post_remove"
    /\ Len(Made) = 1 /\ sevent.before = 1
    /\ entries[1].operation = "associate"
    /\ entries[1].content_type = Made[1].content_type
    /\ entries[1].object_id = Made[1].object_id
    /\ entries[1].related_content_type = Made[1].related_content_type
    /\ entries[1].related_object_id = Made[1].related_object_id
    /\ Made[1].content_type = Owner

\* The objects an auditable instance can stand for.
StreamObjects == {Instance(model, pk, [f \in FieldsOf(model) |-> "a"]) : model \in StreamModels, pk \in Pks}

\* The entries recorded for object x, in the order of the events.
EventsOf(x) == SelectSeq(entries, LAMBDA e : KeyedOn(e, x))

C21_InvalidOperationRaises ==
    /\ (sevent.kind = "store" /\ sevent.action \notin {"create", "update", "delete"})
            => /\ sevent.raised = "ValueError"
               /\ Made = <<>>
               /\ sevent.steps = <<>>
    /\ (sevent.kind = "store_m2m" /\ sevent.action \notin {"associate", "disassociate"})
            => /\ sevent.raised = "ValueError"
               /\ Made = <<>>
               /\ sevent.steps = <<>>

\* _store_activitystream_m2m is called with 'update' for a stored pk after an Entry was
\* recorded: it raises and the stream is as before.
C21_Witness ==
    /\ sevent.kind = "store_m2m" /\ sevent.action = "update"
    /\ \E r \in rows : r.model = sevent.model /\ r.pk \in sevent.pk_set
    /\ sevent.raised = "ValueError"
    /\ Len(entries) = 1 /\ sevent.before = 1

\* C22: _store_activitystream_entry called with old and new both None raises
\* ValueError('Both old and new objects are None') and records no Entry.
C22_BothNoneRaises ==
    (sevent.kind = "store" /\ IsNone(sevent.old) /\ IsNone(sevent.instance)
        /\ sevent.action \in {"create", "update", "delete"})
        => /\ sevent.raised = "ValueError"
           /\ Made = <<>>

\* C23: activitystream_m2m_changed ignores every action other than post_add, post_remove
\* and pre_clear (pre_add, pre_remove, post_clear): it records nothing and raises nothing
\* for them, also when field_name is absent; for post_add, post_remove and pre_clear a
\* missing field_name raises ValueError before any Entry is recorded.
C23_IgnoredActionsAndFieldName ==
    sevent.kind = "signal"
        => /\ sevent.action \in {"pre_add", "pre_remove", "post_clear"}
                => /\ sevent.raised = "none"
                   /\ Made = <<>>
           /\ (sevent.action \in {"post_add", "post_remove", "pre_clear"}
                    /\ sevent.field_name = "-")
                => /\ sevent.raised = "ValueError"
                   /\ Made = <<>>
                   /\ sevent.steps = <<>>

\* post_clear arrives without field_name for an Animal that has a User among its people.
C23_Witness ==
    /\ sevent.kind = "signal" /\ sevent.action = "post_clear"
    /\ sevent.field_name = "-"
    /\ \E l \in sevent.linked : l[1] = sevent.instance.pk /\ sevent.instance.model = Owner
    /\ sevent.raised = "none"

\* The pks related to the instance of the last many-to-many change before the change.
RelatedBefore ==
    IF sevent.reverse THEN {l[1] : l \in {x \in sevent.linked : x[2] = sevent.instance.pk}}
    ELSE {l[2] : l \in {x \in sevent.linked : x[1] = sevent.instance.pk}}

\* C24: clearing a many-to-many relation records at pre_clear, and so before the links
\* are removed, exactly one 'disassociate' Entry for each object related to the instance
\* at that moment: for a forward clear the objects in the instance's field, for a reverse
\* clear the forward-model objects whose field contains the instance; clearing an empty
\* relation records nothing, and the later post_clear records nothing more.
C24_ClearRecordedAtPreClear ==
    (sevent.kind = "m2m" /\ sevent.action = "pre_clear" /\ sevent.raised = "none")
        => /\ Len(Made) = Cardinality(RelatedBefore)
           /\ \A p \in RelatedBefore :
                 Cardinality({k \in 1..Len(Made) :
                     /\ Made[k].operation = "disassociate"
                     /\ Made[k].content_type = Owner
                     /\ Made[k].related_content_type = Target
                     /\ Made[k].object_id = str(IF sevent.reverse THEN p ELSE sevent.instance.pk)
                     /\ Made[k].related_object_id =
                            str(IF sevent.reverse THEN sevent.instance.pk ELSE p)}) = 1
           /\ sevent.steps = <<"pre_clear">> \o [k \in 1..Len(Made) |-> "Entry.objects.create"]
                             \o <<"through", "post_clear">>
           /\ ~\E l \in links : l[IF sevent.reverse THEN 2 ELSE 1] = sevent.instance.pk

\* A User related to one Animal clears its reverse relation: one Entry, keyed on the
\* Animal, recorded before the link is removed.
C24_Witness ==
    /\ sevent.kind = "m2m" /\ sevent.action = "pre_clear" /\ sevent.raised = "none"
    /\ sevent.reverse
    /\ Cardinality(RelatedBefore) = 1
    /\ Len(Made) = 1 /\ Made[1].content_type = Owner
    /\ sevent.steps = <<"pre_clear", "Entry.objects.create", "through", "post_clear">>
    /\ links = {}

\* C25: when pre- and post-signals of several instances interleave, the per-instance
\* transactions opened by _ensure_transaction are exited in the reverse order of their
\* opening (each exit closes the block its own atomic object opened, the innermost), and
\* a second pre-signal on an instance before its post-signal does not lose the first
\* transaction: every open block's atomic object is still some instance's _transaction.
C25_ProperlyNested ==
    /\ (cevent.kind = "post" /\ cevent.object # 0) => cevent.object = cevent.closed
    /\ \A k \in 1..Len(blocks) : \E i \in Instances : held[i] = blocks[k]

\* C26: after any sequence of saves and deletes of objects of registered models, an
\* object has a Resource if and only if it has been saved and not deleted, and it has at
\* most one: update_resource creates the Resource only when none exists and otherwise
\* updates the existing one; remove_resource deletes it and is a silent no-op when the
\* object has no Resource.
C26_ResourceIffStored ==
    /\ \A o \in RegObjects :
          Connected(o[1]) => resCount[o] = (IF o \in stored THEN 1 ELSE 0)
    /\ (revent.kind = "save" /\ EventRegistered)
          => /\ ("init_resource_from_object" \in {rcalls[k] : k \in 1..Len(rcalls)})
                    <=> revent.before[revent.obj] = 0
             /\ ("Resource.update_from_content_object" \in {rcalls[k] : k \in 1..Len(rcalls)})
                    <=> revent.before[revent.obj] > 0
    /\ (revent.kind = "delete_again" /\ EventRegistered)
          => /\ rcalls = <<>>
             /\ resCount = revent.before

\* An object of a registered model was saved and deleted, and is deleted once more
\* through the stale instance while another object of the model keeps its Resource.
C26_Witness ==
    /\ revent.kind = "delete_again" /\ EventRegistered
    /\ rcalls = <<>>
    /\ resCount[revent.obj] = 0
    /\ \E o \in stored : o[1] = revent.obj[1] /\ resCount[o] = 1

\* The client methods the last utility sync called, in order.
ClientMethods == SelectSeq(utrace, LAMBDA c : c.call # "get_resource_server_client")

\* The client method, with its arguments, that matches the action of the last call.
Matching ==
    CASE ucall.action = "create" -> <<[call |-> "create_resource", arg |-> "body"]>>
      [] ucall.action = "update" -> <<[call |-> "update_resource", arg |-> "ansible_id, body"]>>
      [] ucall.action = "delete" -> <<[call |-> "delete_resource", arg |-> "ansible_id"]>>
      [] OTHER -> <<>>

\* The utility sync was called for an instance with a resource and an ansible_id.
UtilHasResource == ucall.inst # 0 /\ ucall.resource = "ok"

\* C27 (as stated): for an instance with a resource and ansible_id the utility sync calls
\* exactly the client method matching the action and none for any other action; it
\* raises ValidationError exactly when that client call raises, whatever the class of the
\* exception, and otherwise returns without error.
C27_MatchingCallOrValidationError ==
    UtilHasResource
        => /\ ClientMethods = Matching
           /\ (uresult = "ValidationError") <=> (Matching # <<>> /\ ucall.fail = "request")
           /\ (uresult # "ValidationError") => uresult = "ok"

\* C27 (amended): the above holds once the client is obtained and the body is
\* serialized; what get_resource_server_client or the serializer raises leaves the
\* function unchanged, not as ValidationError, and no client method is called.
C27_MatchingCallOnceReached ==
    UtilHasResource
        => /\ (ucall.fail \notin {"client", "serializer"})
                => /\ ClientMethods = Matching
                   /\ (uresult = "ValidationError")
                         <=> (Matching # <<>> /\ ucall.fail = "request")
                   /\ (uresult # "ValidationError") => uresult = "ok"
           /\ (ucall.fail \in {"client", "serializer"})
                => /\ ClientMethods = <<>>
                   /\ uresult = ucall.exc

\* The client method raises a ConnectionError: ValidationError leaves the function.
C27_Witness ==
    /\ UtilHasResource
    /\ ucall.action = "delete"
    /\ ucall.fail = "request"
    /\ ucall.exc = "ConnectionError"
    /\ ClientMethods = <<[call |-> "delete_resource", arg |-> "ansible_id"]>>
    /\ uresult = "ValidationError"

====
